---- MODULE Spec2Model ----
(***************************************************************************)
(* Model of src/value_unit.rs (natpl): the unit algebra                    *)
(* (Unit::new, new_named, singleton, multiply, divide, pow) and the        *)
(* rendering decision of <ValueKind as Display>::fmt.                      *)
(*                                                                         *)
(* A Unit is its `parts` map, a function from a finite set of names to     *)
(* isize exponents.  A key may carry the exponent 0 in this                *)
(* representation: canonical form is something the operations have to      *)
(* establish, not something the representation grants.                     *)
(*                                                                         *)
(* isize is modelled as the interval MinInt..MaxInt with the two's         *)
(* complement shape MinInt = -(MaxInt + 1).  The arithmetic of the source  *)
(* (add, subtract, negate, abs, multiply) is Rust's primitive integer      *)
(* arithmetic: with overflow checks on (debug profile) a result outside    *)
(* the interval panics, with overflow checks off (release profile) it      *)
(* wraps.                                                                  *)
(***************************************************************************)
EXTENDS Integers, Sequences, FiniteSets

VARIABLES
    a, b,               \* two Units (their `parts` maps) the program holds
    found,              \* the Option<&Name> last returned by a.singleton()
    status,             \* "running", or "panicked" after an arithmetic overflow
    overflow_checks,    \* build profile: TRUE panics on overflow, FALSE wraps
    overflowed,         \* history: an isize step of a call has left isize
    kind, exp, dec_len, \* the ValueKind being displayed and its decomposition
    out                 \* what Display wrote for it

vars ==
    <<a, b, found, status, overflow_checks, overflowed, kind, exp, dec_len, out>>
unit_vars == <<a, b, found, status, overflow_checks, overflowed>>
fmt_vars == <<kind, exp, dec_len, out>>

----------------------------------------------------------------------------
(* Bounds *)

MaxInt == 3
MaxExp10 == 6
MaxDecLen == 6

MinInt == -(MaxInt + 1)
Modulus == 2 * (MaxInt + 1)
ISize == MinInt..MaxInt

\* Name is external, totally ordered; BTreeMap iterates in this order.
NameOrder == <<"m", "s">>
Names == {NameOrder[i] : i \in 1..Len(NameOrder)}

----------------------------------------------------------------------------
(* isize arithmetic *)

Fits(x) == x \in ISize
Wrap(x) == ((x - MinInt) % Modulus) + MinInt
Abs(x) == IF x < 0 THEN -x ELSE x

----------------------------------------------------------------------------
(* BTreeMap<Name, isize> *)

EmptyParts == [k \in {} |-> 0]
Insert(parts, name, val) ==
    [k \in DOMAIN parts \cup {name} |-> IF k = name THEN val ELSE parts[k]]
Remove(parts, name) == [k \in DOMAIN parts \ {name} |-> parts[k]]
\* the keys of a map in iteration order
Keys(parts) == SelectSeq(NameOrder, LAMBDA k : k \in DOMAIN parts)

\* The outcome of an operation: the map it returns, or a panic.  `ovf`
\* records that an arithmetic step left ISize; `parts` is then the result
\* of carrying on with the wrapped value.
Returned(parts) == [panic |-> FALSE, parts |-> parts]
Panicked == [panic |-> TRUE, parts |-> EmptyParts]
Outcome(r) == IF r.ovf /\ overflow_checks THEN Panicked ELSE Returned(r.parts)
\* a call made on the Unit r.parts an earlier call returned, `next` being
\* that call's outcome; a panic of the earlier call propagates
AndThen(r, next) == IF r.panic THEN Panicked ELSE next

----------------------------------------------------------------------------
(* impl Unit *)

new == EmptyParts

new_named(name) == Insert(new, name, 1)

None == <<>>
Some(x) == <<x>>

\* singleton without the `*p != 1` test
singleton_any_exponent(self) ==
    IF Cardinality(DOMAIN self) # 1
    THEN None
    ELSE Some(Head(Keys(self)))

singleton(self) ==
    IF Cardinality(DOMAIN self) # 1
    THEN None
    ELSE LET name == Head(Keys(self))
             p == self[name]
         IN  IF p # 1 THEN None ELSE Some(name)

\* multiply's loop body without the `if total == 0 { remove }`
multiply_entry_keeps_zero(acc, name, val) ==
    LET present == name \in DOMAIN acc.parts
        sum == IF present THEN acc.parts[name] + val ELSE val
    IN  [parts |-> Insert(acc.parts, name, Wrap(sum)),
         ovf |-> acc.ovf \/ ~Fits(sum)]

\* one iteration of multiply's loop over other.parts
multiply_entry(acc, name, val) ==
    LET present == name \in DOMAIN acc.parts
        sum == IF present THEN acc.parts[name] + val ELSE val
        total == Wrap(sum)
        parts == Insert(acc.parts, name, total)
    IN  [parts |-> IF total = 0 THEN Remove(parts, name) ELSE parts,
         ovf |-> acc.ovf \/ ~Fits(sum)]

RECURSIVE multiply_loop(_, _, _)
multiply_loop(acc, other, keys) ==
    IF keys = <<>>
    THEN acc
    ELSE multiply_loop(multiply_entry(acc, Head(keys), other[Head(keys)]),
                       other, Tail(keys))

multiply_steps(self, other) ==
    multiply_loop([parts |-> self, ovf |-> FALSE], other, Keys(other))

multiply(self, other) == Outcome(multiply_steps(self, other))

\* one iteration of divide's loop over other.parts
divide_entry(acc, name, val) ==
    LET present == name \in DOMAIN acc.parts
        diff == IF present THEN acc.parts[name] - val ELSE -val
        total == Wrap(diff)
        parts == Insert(acc.parts, name, total)
    IN  [parts |-> IF total = 0 THEN Remove(parts, name) ELSE parts,
         ovf |-> acc.ovf \/ ~Fits(diff)]

RECURSIVE divide_loop(_, _, _)
divide_loop(acc, other, keys) ==
    IF keys = <<>>
    THEN acc
    ELSE divide_loop(divide_entry(acc, Head(keys), other[Head(keys)]),
                     other, Tail(keys))

divide_steps(self, other) ==
    divide_loop([parts |-> self, ovf |-> FALSE], other, Keys(other))

divide(self, other) == Outcome(divide_steps(self, other))

\* the filter_map closure of pow on one (k, v), given is_neg and n_add
pow_entry(acc, k, v0, is_neg, n_add) ==
    LET prod == v0 * n_add
        v == Wrap(prod)
    IN  IF v = 0
        THEN [parts |-> acc.parts, ovf |-> acc.ovf \/ ~Fits(prod)]
        ELSE IF is_neg
             THEN [parts |-> Insert(acc.parts, k, Wrap(-v)),
                   ovf |-> acc.ovf \/ ~Fits(prod) \/ ~Fits(-v)]
             ELSE [parts |-> Insert(acc.parts, k, v),
                   ovf |-> acc.ovf \/ ~Fits(prod)]

RECURSIVE pow_loop(_, _, _, _, _)
pow_loop(acc, self, keys, is_neg, n_add) ==
    IF keys = <<>>
    THEN acc
    ELSE pow_loop(pow_entry(acc, Head(keys), self[Head(keys)], is_neg, n_add),
                  self, Tail(keys), is_neg, n_add)

pow_steps(self, n) ==
    LET is_neg == n < 0
        n_add == Wrap(Abs(n))
    IN  pow_loop([parts |-> EmptyParts, ovf |-> ~Fits(Abs(n))],
                 self, Keys(self), is_neg, n_add)

pow(self, n) == Outcome(pow_steps(self, n))

----------------------------------------------------------------------------
(* impl Display for ValueKind *)

Min(x, y) == IF x < y THEN x ELSE y

\* usize has the width of isize: it holds 0..Modulus-1
USize == 0..(Modulus - 1)

\* `x - y` on usize: below zero it panics with overflow checks, else wraps
usize_sub(x, y) ==
    IF x - y \in USize
    THEN [panic |-> FALSE, val |-> x - y]
    ELSE [panic |-> overflow_checks, val |-> (x - y) % Modulus]

\* the external helper max_precision(&dec, n), by the length of what it returns
max_precision(len, n) == Min(len, n)

\* exp_str: the exponent written after "x10^", or nothing
exp_str(e) == IF e = 0 THEN <<>> ELSE <<e>>

\* what fmt writes: "{:.prec$}" (fixed), "{int}{exp_str}" (int_exp),
\* "{int}.{dec}{exp_str}" (int_dec_exp), with the suffix it wrote
Fixed(prec) ==
    [form |-> "fixed", prec |-> prec, dec_digits |-> 0, suffix |-> <<>>]
IntExp(suffix) ==
    [form |-> "int_exp", prec |-> 0, dec_digits |-> 0, suffix |-> suffix]
IntDecExp(digits, suffix) ==
    [form |-> "int_dec_exp", prec |-> 0, dec_digits |-> digits, suffix |-> suffix]
Text(form) == [form |-> form, prec |-> 0, dec_digits |-> 0, suffix |-> <<>>]
NoOutput == Text("none")

\* fmt with the first range written (0..=4)
fmt_number_inclusive_range(e, len) ==
    IF 0 <= e /\ e <= 4
    THEN IF len < e
         THEN Fixed(0)
         ELSE LET prec == usize_sub(Min(len, 4), e)
              IN  IF prec.panic THEN Text("panic") ELSE Fixed(prec.val)
    ELSE IF -3 <= e /\ e < 0
         THEN Fixed(Min(len + (-e), 4))
         ELSE IF len = 0
              THEN IntExp(exp_str(e))
              ELSE IntDecExp(max_precision(len, 3), exp_str(e))

\* fmt without the `dec.len() < exp` guard before the subtraction
fmt_number_unguarded(e, len) ==
    IF 0 <= e /\ e < 4
    THEN LET prec == usize_sub(Min(len, 4), e)
         IN  IF prec.panic THEN Text("panic") ELSE Fixed(prec.val)
    ELSE IF -3 <= e /\ e < 0
         THEN Fixed(Min(len + (-e), 4))
         ELSE IF len = 0
              THEN IntExp(exp_str(e))
              ELSE IntDecExp(max_precision(len, 3), exp_str(e))

fmt_number(e, len) ==
    IF 0 <= e /\ e < 4
    THEN IF len < e
         THEN Fixed(0)
         ELSE LET prec == usize_sub(Min(len, 4), e)
              IN  IF prec.panic THEN Text("panic") ELSE Fixed(prec.val)
    ELSE IF -3 <= e /\ e < 0
         THEN Fixed(Min(len + (-e), 4))
         ELSE IF len = 0
              THEN IntExp(exp_str(e))
              ELSE IntDecExp(max_precision(len, 3), exp_str(e))

fmt(k, e, len) ==
    CASE k = "FunctionRef" -> Text("function")
      [] k = "Number" -> fmt_number(e, len)
      [] k = "Bool" -> Text("bool")

----------------------------------------------------------------------------
(* The program: Units are created by new / new_named and combined by       *)
(* multiply / divide / pow; every result is a new Unit.                    *)

NotCalled == [called |-> FALSE, ret |-> None]

\* a panic unwinds: the Units are dropped
Abort ==
    /\ status' = "panicked"
    /\ a' = new /\ b' = new
    /\ found' = NotCalled

\* let a = <result>; the borrow held by `found` ends with the old a
Store(r) ==
    IF r.panic
    THEN Abort
    ELSE /\ a' = r.parts
         /\ b' = b
         /\ status' = status
         /\ found' = NotCalled

\* the right operands a call is made with: b, or a fresh base dimension
Operands == {b} \cup {new_named(name) : name \in Names}

New ==
    /\ status = "running"
    /\ Store(Returned(new))
    /\ UNCHANGED <<overflow_checks, overflowed, fmt_vars>>

NewNamed ==
    /\ status = "running"
    /\ \E name \in Names : Store(Returned(new_named(name)))
    /\ UNCHANGED <<overflow_checks, overflowed, fmt_vars>>

Multiply ==
    /\ status = "running"
    /\ \E other \in Operands :
          /\ Store(multiply(a, other))
          /\ overflowed' = (overflowed \/ multiply_steps(a, other).ovf)
    /\ UNCHANGED <<overflow_checks, fmt_vars>>

Divide ==
    /\ status = "running"
    /\ \E other \in Operands :
          /\ Store(divide(a, other))
          /\ overflowed' = (overflowed \/ divide_steps(a, other).ovf)
    /\ UNCHANGED <<overflow_checks, fmt_vars>>

Pow ==
    /\ status = "running"
    /\ \E n \in ISize :
          /\ Store(pow(a, n))
          /\ overflowed' = (overflowed \/ pow_steps(a, n).ovf)
    /\ UNCHANGED <<overflow_checks, fmt_vars>>

Singleton ==
    /\ status = "running"
    /\ found' = [called |-> TRUE, ret |-> singleton(a)]
    /\ UNCHANGED <<a, b, status, overflow_checks, overflowed, fmt_vars>>

\* let b = a.clone()
Clone ==
    /\ status = "running"
    /\ b' = a
    /\ UNCHANGED <<a, found, status, overflow_checks, overflowed, fmt_vars>>

Init ==
    /\ a = new /\ b = new
    /\ found = NotCalled
    /\ status = "running"
    /\ overflow_checks \in BOOLEAN
    /\ overflowed = FALSE
    /\ kind = "Bool" /\ exp = 0 /\ dec_len = 0 /\ out = NoOutput

Next ==
    \/ New
    \/ NewNamed
    \/ Multiply
    \/ Divide
    \/ Pow
    \/ Singleton
    \/ Clone

Spec == Init /\ [][Next]_vars

----------------------------------------------------------------------------
(* Displaying a ValueKind: the value and its decomposition                 *)
(* (int, dec, exp) = dec_in_scientific_notation(num.normalized()) are      *)
(* inputs; fmt decides from exp and dec.len().                             *)

Kinds == {"FunctionRef", "Number", "Bool"}
Exp10 == (-MaxExp10)..MaxExp10
DecLens == 0..MaxDecLen

Fmt ==
    /\ out = NoOutput
    /\ out' = fmt(kind, exp, dec_len)
    /\ UNCHANGED <<kind, exp, dec_len, unit_vars>>

InitFmt ==
    /\ a = new /\ b = new
    /\ found = NotCalled
    /\ status = "running"
    /\ overflow_checks \in BOOLEAN
    /\ overflowed = FALSE
    /\ kind \in Kinds
    /\ exp \in Exp10
    /\ dec_len \in DecLens
    /\ kind # "Number" => exp = 0 /\ dec_len = 0
    /\ out = NoOutput

NextFmt == Fmt

SpecFmt == InitFmt /\ [][NextFmt]_vars

----------------------------------------------------------------------------
(* Properties *)

\* the exponent of dimension d in a Unit, absent counted as 0
Exponent(u, d) == IF d \in DOMAIN u THEN u[d] ELSE 0
Canonical(u) == \A k \in DOMAIN u : u[k] # 0
\* every canonical Unit over Names with exponents in ISize
Units == UNION {[S -> ISize \ {0}] : S \in SUBSET Names}

\* C1: every Unit reached from Unit::new() and Unit::new_named(name) by
\* multiply, divide and pow(n), for any n, has no entry with exponent 0.
C1_CanonicalForm == Canonical(a) /\ Canonical(b)

\* C1 witness: a Unit built by cancelling one dimension and scaling the other
C1_Witness ==
    /\ status = "running"
    /\ a = [s |-> -2]
    /\ b = [m |-> 1, s |-> 1]

\* the pointwise sum of two Units (exponents as integers)
IsPointwiseSum(r, x, y) ==
    /\ ~r.panic
    /\ \A d \in Names :
          /\ Exponent(r.parts, d) = Exponent(x, d) + Exponent(y, d)
          /\ d \in DOMAIN r.parts <=> Exponent(x, d) + Exponent(y, d) # 0

\* C2: A.multiply(B) is the pointwise sum of the exponents of A and B, with
\* a key exactly where the sum is nonzero; new_named(m).multiply(new_named(m))
\* is exactly {m: 2}.
C2_PointwiseSum ==
    /\ IsPointwiseSum(multiply(a, b), a, b)
    /\ \A m \in Names :
          multiply(new_named(m), new_named(m)) = Returned([k \in {m} |-> 2])

\* C2 within range: where no exponent sum leaves isize, multiply is the
\* pointwise sum in either build.
C2_PointwiseSumInRange ==
    ~multiply_steps(a, b).ovf => IsPointwiseSum(multiply(a, b), a, b)

\* pow(n) as exponentiation by n (exponents as integers)
IsPower(r, x, n) ==
    /\ ~r.panic
    /\ DOMAIN r.parts = {k \in DOMAIN x : x[k] * n # 0}
    /\ \A k \in DOMAIN r.parts : r.parts[k] = x[k] * n

\* C3: A.pow(n) turns each exponent e of A into e * n, for every n, and adds
\* no key; A.pow(1) = A, A.pow(-1).pow(-1) = A and A.pow(0) = Unit::new().
C3_Exponentiation ==
    /\ \A n \in ISize : IsPower(pow(a, n), a, n)
    /\ pow(a, 1) = Returned(a)
    /\ AndThen(pow(a, -1), pow(pow(a, -1).parts, -1)) = Returned(a)
    /\ pow(a, 0) = Returned(new)

\* C3 within range: where |n|, e * |n| and the negation stay in isize,
\* pow(n) is exponentiation by n; pow(1) and pow(0) are as claimed always.
C3_ExponentiationInRange ==
    /\ \A n \in ISize : ~pow_steps(a, n).ovf => IsPower(pow(a, n), a, n)
    /\ pow(a, 1) = Returned(a)
    /\ pow(a, 0) = Returned(new)

C4_DivideIsMultiplyByInverseInRange ==
    /\ ~pow(b, -1).panic =>
          divide(a, b) = AndThen(pow(b, -1), multiply(a, pow(b, -1).parts))
    /\ divide(a, a) = Returned(new)

\* C5: A.multiply(B).divide(B) equals A.
C5_InverseLaw ==
    AndThen(multiply(a, b), divide(multiply(a, b).parts, b)) = Returned(a)

\* C5 within range: the law holds whenever A.multiply(B) returns.
C5_InverseLawInRange ==
    ~multiply(a, b).panic =>
        AndThen(multiply(a, b), divide(multiply(a, b).parts, b)) = Returned(a)

\* C6: multiply is commutative and associative.
C6_CommutativeAssociative ==
    /\ multiply(a, b) = multiply(b, a)
    /\ \A z \in Units :
          AndThen(multiply(a, b), multiply(multiply(a, b).parts, z))
              = AndThen(multiply(b, z), multiply(a, multiply(b, z).parts))

\* C6 within range: commutativity always; associativity whenever both
\* groupings return.
C6_CommutativeAssociativeInRange ==
    /\ multiply(a, b) = multiply(b, a)
    /\ \A z \in Units :
          LET l == AndThen(multiply(a, b), multiply(multiply(a, b).parts, z))
              r == AndThen(multiply(b, z), multiply(a, multiply(b, z).parts))
          IN  ~l.panic /\ ~r.panic => l = r

\* C7: U.singleton() is Some(name) exactly when U has one entry and its
\* exponent is 1, name being that entry's key; otherwise it is None.
C7_Singleton ==
    found.called =>
        /\ found.ret # None <=>
              /\ Cardinality(DOMAIN a) = 1
              /\ \A k \in DOMAIN a : a[k] = 1
        /\ found.ret # None => DOMAIN a = {found.ret[1]}

\* C7 witness: singleton() was called on a one-entry Unit whose exponent is
\* not 1, and on nothing else returned None
C7_Witness ==
    /\ found.called
    /\ found.ret = None
    /\ Cardinality(DOMAIN a) = 1

\* C8: multiply, divide and pow complete on all isize inputs, and no
\* arithmetic step of theirs (sum, difference, negation, |n|, e * |n|)
\* leaves the isize range.
C8_Total ==
    /\ status # "panicked"
    /\ ~overflowed

\* C9: for a Number, the rendering follows the ordered policy in e = exp and
\* L = dec.len(): fixed-point with 0 or min(L, 4) - e fractional digits for
\* 0 <= e < 4, fixed-point with min(L + |e|, 4) for -3 <= e < 0, else
\* "{int}x10^e" when L = 0 and "{int}.{at most 3 digits}x10^e" otherwise; the
\* suffix is written exactly when e is outside [-3, 4).
C9_RenderingPolicy ==
    (kind = "Number" /\ out # NoOutput) =>
        /\ (0 <= exp /\ exp < 4 /\ dec_len < exp) => out = Fixed(0)
        /\ (0 <= exp /\ exp < 4 /\ dec_len >= exp) =>
              out = Fixed(Min(dec_len, 4) - exp)
        /\ (-3 <= exp /\ exp < 0) => out = Fixed(Min(dec_len + Abs(exp), 4))
        /\ ((exp < -3 \/ exp >= 4) /\ dec_len = 0) => out = IntExp(<<exp>>)
        /\ ((exp < -3 \/ exp >= 4) /\ dec_len > 0) =>
              /\ out.form = "int_dec_exp"
              /\ out.dec_digits <= 3
              /\ out.dec_digits <= dec_len
              /\ out.suffix = <<exp>>
        /\ out.suffix # <<>> <=> (exp < -3 \/ exp >= 4)

\* C9 witness: exp = 6 with no decimal digits was written as "{int}x10^6"
C9_Witness ==
    /\ kind = "Number" /\ exp = 6 /\ dec_len = 0
    /\ out = IntExp(<<6>>)

\* C10: in both fixed-point branches the fractional-digit count is in 0..4
\* and the usize subtraction min(L, 4) - e never goes below zero, so fmt
\* does not panic.
C10_PrecisionInRange ==
    (kind = "Number" /\ out # NoOutput) =>
        /\ out.form # "panic"
        /\ out.form = "fixed" => out.prec \in 0..4

\* C10 witness: more than 4 decimal digits at exp = 3, written with 1 digit
C10_Witness ==
    /\ kind = "Number" /\ exp = 3 /\ dec_len > 4
    /\ out = Fixed(1)

====
